---- MODULE Spec2Model ----
(***************************************************************************)
(* Model of the Bencode codec in src/bencode: the position-tracking        *)
(* recursive-descent Decoder (decoder.py) and the recursive Encoder        *)
(* (encoder.py).                                                           *)
(*                                                                         *)
(* Buffers are sequences of byte values.  Python indices are 0-based and   *)
(* may be negative; the Py* operators below reproduce the indexing, find,  *)
(* slicing and int() behaviour of CPython on bytes objects.                *)
(*                                                                         *)
(* The decoder's mutual recursion (decode_list / decode_dictionary) is     *)
(* modelled with an explicit call stack of frames, one frame per active    *)
(* call, one step per iteration of the routine's while loop.               *)
(*                                                                         *)
(* Buffers handed to the decoder are bytes objects; the isinstance guards  *)
(* and the str-to-bytes conversions at the head of each decoder routine    *)
(* (decoder.py lines 31-33, 65-67, 101-103, 157-159, 217-218) are passed   *)
(* unchanged by such buffers.                                              *)
(***************************************************************************)
EXTENDS Integers, Sequences, FiniteSets, TLC

VARIABLES data, value, pc, decoder_call, encoder_call, pos, stack, result, out, out2

vars == <<data, value, pc, decoder_call, encoder_call, pos, stack, result, out, out2>>

(***************************************************************************)
(* Bounds of the model.                                                    *)
(***************************************************************************)
\* longest raw buffer handed to the decoder
MaxLen == 4
\* largest number of nodes of a value handed to the encoder
MaxNodes == 3
\* stand-in for the interpreter's recursion limit (sys.getrecursionlimit())
RecursionLimit == 7

(***************************************************************************)
(* Byte values used by the grammar.                                        *)
(***************************************************************************)
ord_i == 105
ord_l == 108
ord_d == 100
ord_e == 101
ord_colon == 58
ord_0 == 48
ord_9 == 57
ord_minus == 45
ord_plus == 43
ord_underscore == 95

\* bytes.isspace(): space, \t, \n, \v, \f, \r
PyWhitespace == {32, 9, 10, 11, 12, 13}

(***************************************************************************)
(* Python values.  Every value is a record of one shape:                   *)
(*   k : the runtime kind   n : the number of an int / bool                *)
(*   s : the bytes of a bytes object, the code points of a str             *)
(*   c : the items of a list, the items() of a dict in insertion order,    *)
(*       the key and the value of one item of a dict                       *)
(***************************************************************************)
VInt(n) == [k |-> "int", n |-> n, s |-> <<>>, c |-> <<>>]
VBool(b) == [k |-> "bool", n |-> b, s |-> <<>>, c |-> <<>>]
VBytes(s) == [k |-> "bytes", n |-> 0, s |-> s, c |-> <<>>]
VStr(s) == [k |-> "str", n |-> 0, s |-> s, c |-> <<>>]
VList(c) == [k |-> "list", n |-> 0, s |-> <<>>, c |-> c]
VDict(c) == [k |-> "dict", n |-> 0, s |-> <<>>, c |-> c]
\* one (key, value) item of a dict
VPair(key, v) == [k |-> "pair", n |-> 0, s |-> <<>>, c |-> <<key, v>>]
\* None, standing for every kind the codec does not support
VNone == [k |-> "none", n |-> 0, s |-> <<>>, c |-> <<>>]

\* isinstance(x, int): bool is a subclass of int
IsInstanceInt(x) == x.k \in {"int", "bool"}
\* isinstance(x, (str, bytes))
IsInstanceStr(x) == x.k \in {"str", "bytes"}
IsInstanceList(x) == x.k = "list"
IsInstanceDict(x) == x.k = "dict"

(***************************************************************************)
(* CPython semantics of bytes objects.                                     *)
(***************************************************************************)
\* data[i] is defined for -len <= i < len, IndexError otherwise
PyInRange(b, i) == (-Len(b) <= i) /\ (i < Len(b))

PyGet(b, i) == IF i < 0 THEN b[Len(b) + i + 1] ELSE b[i + 1]

\* a slice bound is clamped into 0..len, a negative one counts from the end
PyClamp(b, i) ==
    IF i < 0 THEN (IF Len(b) + i < 0 THEN 0 ELSE Len(b) + i)
    ELSE (IF i > Len(b) THEN Len(b) ELSE i)

\* data[lo:hi]
PySlice(b, lo, hi) ==
    LET l == PyClamp(b, lo)
        h == PyClamp(b, hi)
    IN  IF h <= l THEN <<>> ELSE SubSeq(b, l + 1, h)

\* data.find(bytes([byte]), start): lowest index >= start, or -1
PyFind(b, byte, start) ==
    LET st == IF start < 0 THEN (IF Len(b) + start < 0 THEN 0 ELSE Len(b) + start) ELSE start
        hits == {j \in st..(Len(b) - 1) : b[j + 1] = byte}
    IN  IF hits = {} THEN -1 ELSE CHOOSE j \in hits : \A m \in hits : j <= m

IsDigit(c) == (ord_0 <= c) /\ (c <= ord_9)

RECURSIVE PyLStrip(_)
PyLStrip(t) ==
    IF t # <<>> /\ t[1] \in PyWhitespace THEN PyLStrip(Tail(t)) ELSE t

RECURSIVE PyRStrip(_)
PyRStrip(t) ==
    IF t # <<>> /\ t[Len(t)] \in PyWhitespace THEN PyRStrip(SubSeq(t, 1, Len(t) - 1)) ELSE t

\* the literal without surrounding whitespace and without its sign
PyIntBody(t) ==
    LET u == PyRStrip(PyLStrip(t))
    IN  IF u # <<>> /\ u[1] \in {ord_minus, ord_plus} THEN Tail(u) ELSE u

PyIntNegative(t) ==
    LET u == PyRStrip(PyLStrip(t))
    IN  u # <<>> /\ u[1] = ord_minus

\* int(t) does not raise ValueError: digits, single underscores between digits
PyIntValid(t) ==
    LET u == PyIntBody(t)
    IN  /\ u # <<>>
        /\ \A j \in 1..Len(u) : IsDigit(u[j]) \/ u[j] = ord_underscore
        /\ IsDigit(u[1])
        /\ IsDigit(u[Len(u)])
        /\ \A j \in 1..(Len(u) - 1) : ~(u[j] = ord_underscore /\ u[j + 1] = ord_underscore)

RECURSIVE PyDigitsValue(_, _)
PyDigitsValue(u, acc) ==
    IF u = <<>> THEN acc
    ELSE IF u[1] = ord_underscore THEN PyDigitsValue(Tail(u), acc)
    ELSE PyDigitsValue(Tail(u), 10 * acc + (u[1] - ord_0))

\* int(t) for a valid literal; leading zeros and a signed zero are accepted
PyInt(t) ==
    LET m == PyDigitsValue(PyIntBody(t), 0)
    IN  IF PyIntNegative(t) THEN 0 - m ELSE m

RECURSIVE PyDigits(_)
PyDigits(n) ==
    IF n < 10 THEN <<ord_0 + n>> ELSE PyDigits(n \div 10) \o <<ord_0 + (n % 10)>>

\* str(n).encode() for an int
PyStrInt(n) == IF n < 0 THEN <<ord_minus>> \o PyDigits(0 - n) ELSE PyDigits(n)

\* str(True).encode(), str(False).encode()
PyStrBool(b) == IF b = 1 THEN <<84, 114, 117, 101>> ELSE <<70, 97, 108, 115, 101>>

\* one code point as UTF-8 (code points below 2048)
Utf8(cp) == IF cp < 128 THEN <<cp>> ELSE <<192 + (cp \div 64), 128 + (cp % 64)>>

RECURSIVE PyStrEncode(_)
\* str.encode(): UTF-8
PyStrEncode(s) == IF s = <<>> THEN <<>> ELSE Utf8(s[1]) \o PyStrEncode(Tail(s))

(***************************************************************************)
(* Decoder: results.  A routine either raises (err names the exception     *)
(* class) or returns.  tuple tells whether it returned (value, end) or     *)
(* the bare value.                                                         *)
(***************************************************************************)
NoResult == [err |-> "pending", val |-> VNone, end |-> 0, tuple |-> FALSE]
Raise(e) == [err |-> e, val |-> VNone, end |-> 0, tuple |-> FALSE]
Return2(v, e) == [err |-> "", val |-> v, end |-> e, tuple |-> TRUE]
Return1(v) == [err |-> "", val |-> v, end |-> 0, tuple |-> FALSE]

\* Decoder.decode_integer(data, pos)
decode_integer(b, p) ==
    IF ~PyInRange(b, p) THEN Raise("IndexError")
    ELSE IF PyGet(b, p) # ord_i THEN Raise("DecodeIntegerError")
    ELSE LET end == PyFind(b, ord_e, p)
         IN  IF end = -1 THEN Raise("DecodeIntegerError")
             ELSE LET txt == PySlice(b, p + 1, end)
                  IN  IF ~PyIntValid(txt) THEN Raise("DecodeIntegerError")
                      ELSE Return2(VInt(PyInt(txt)), end)

\* decode_string with the exclusive end (one past the payload) as its end
decode_string_exclusive_end(b, p) ==
    LET colon_index == PyFind(b, ord_colon, p)
    IN  IF colon_index = -1 THEN Raise("DecodeStringError")
        ELSE LET txt == PySlice(b, p, colon_index)
             IN  IF ~PyIntValid(txt) THEN Raise("DecodeStringError")
                 ELSE LET length == PyInt(txt)
                          end == colon_index + 1 + length
                          string == PySlice(b, colon_index + 1, end)
                      IN  IF Len(string) < length THEN Raise("DecodeStringError")
                          ELSE Return2(VBytes(string), end)

\* Decoder.decode_string(data, pos)
decode_string(b, p) ==
    LET colon_index == PyFind(b, ord_colon, p)
    IN  IF colon_index = -1 THEN Raise("DecodeStringError")
        ELSE LET txt == PySlice(b, p, colon_index)
             IN  IF ~PyIntValid(txt) THEN Raise("DecodeStringError")
                 ELSE LET length == PyInt(txt)
                          end == colon_index + 1 + length
                          string == PySlice(b, colon_index + 1, end)
                      IN  IF Len(string) < length THEN Raise("DecodeStringError")
                          ELSE Return2(VBytes(string), end - 1)

(***************************************************************************)
(* Decoder: the call stack.  A frame is one active call of decode_list or  *)
(* decode_dictionary with its local variables.                             *)
(***************************************************************************)
Frame(fn, p) ==
    [fn |-> fn, pos |-> p, current_pos |-> p + 1, contents |-> <<>>, key |-> VNone]

\* the state of the decoder after a step: the stack, and the result once
\* the outermost call has returned or an exception has unwound the stack
Running(stk) == [stack |-> stk, result |-> NoResult]
Fail(e) == [stack |-> <<>>, result |-> Raise(e)]

\* result[key] = v on a dict kept as pairs in insertion order
DictSet(pairs, key, v) ==
    IF \E j \in 1..Len(pairs) : pairs[j].c[1] = key
    THEN [j \in 1..Len(pairs) |-> IF pairs[j].c[1] = key THEN VPair(key, v) ELSE pairs[j]]
    ELSE Append(pairs, VPair(key, v))

\* the frame on top takes a decoded child: contents.append(v) or
\* result[key] = v, then current_pos = end + 1
Store(stk, v, end) ==
    LET n == Len(stk)
        top == stk[n]
        upd == IF top.fn = "list"
               THEN [top EXCEPT !.contents = Append(@, v), !.current_pos = end + 1]
               ELSE [top EXCEPT !.contents = DictSet(@, top.key, v),
                                !.current_pos = end + 1, !.key = VNone]
    IN  Running([stk EXCEPT ![n] = upd])

\* the frame on top executes return (v, end)
Deliver(stk, v, end) ==
    IF Len(stk) = 1 THEN [stack |-> <<>>, result |-> Return2(v, end)]
    ELSE Store(SubSeq(stk, 1, Len(stk) - 1), v, end)

\* a child decoded by decode_integer or decode_string: its exception
\* propagates, its value is stored
Leaf(stk, r) == IF r.err # "" THEN Fail(r.err) ELSE Store(stk, r.val, r.end)

\* a call that nests deeper than the interpreter allows raises RecursionError
Push(stk, fn, p) ==
    IF Len(stk) >= RecursionLimit THEN Fail("RecursionError")
    ELSE Running(Append(stk, Frame(fn, p)))

\* Decoder.decode_list(data, pos), up to the while loop
decode_list(stk, b, p) ==
    IF ~PyInRange(b, p) THEN Fail("IndexError")
    ELSE IF PyGet(b, p) # ord_l THEN Fail("DecodeListError")
    ELSE Push(stk, "list", p)

\* Decoder.decode_dictionary(data, pos), up to the while loop
decode_dictionary(stk, b, p) ==
    IF ~PyInRange(b, p) THEN Fail("IndexError")
    ELSE IF PyGet(b, p) # ord_d THEN Fail("DecodeListError")
    ELSE Push(stk, "dict", p)

\* one iteration of the while loop of decode_list
decode_list_step(stk, b) ==
    LET top == stk[Len(stk)]
        cp == top.current_pos
    IN  IF ~(cp < Len(b)) THEN Fail("DecodeListError")
        ELSE IF ~PyInRange(b, cp) THEN Fail("IndexError")
        ELSE IF PyGet(b, cp) = ord_i THEN Leaf(stk, decode_integer(b, cp))
        ELSE IF IsDigit(PyGet(b, cp)) THEN Leaf(stk, decode_string(b, cp))
        ELSE IF PyGet(b, cp) = ord_l THEN decode_list(stk, b, cp)
        ELSE IF PyGet(b, cp) = ord_d THEN decode_dictionary(stk, b, cp)
        ELSE IF PyGet(b, cp) = ord_e THEN Deliver(stk, VList(top.contents), cp)
        ELSE Fail("DecodeListError")

\* the value half of an iteration of decode_dictionary: the key is decoded,
\* current_pos = end + 1 is done, the byte at current_pos selects the routine
decode_dictionary_value(stk, b) ==
    LET cp == stk[Len(stk)].current_pos
    IN  IF ~PyInRange(b, cp) THEN Fail("IndexError")
        ELSE IF PyGet(b, cp) = ord_i THEN Leaf(stk, decode_integer(b, cp))
        ELSE IF IsDigit(PyGet(b, cp)) THEN Leaf(stk, decode_string(b, cp))
        ELSE IF PyGet(b, cp) = ord_l THEN decode_list(stk, b, cp)
        ELSE IF PyGet(b, cp) = ord_d THEN decode_dictionary(stk, b, cp)
        ELSE Fail("DecodeDictionaryError")

\* one iteration of the while loop of decode_dictionary
decode_dictionary_step(stk, b) ==
    LET n == Len(stk)
        top == stk[n]
        cp == top.current_pos
    IN  IF ~(cp < Len(b)) THEN Fail("DecodeDictionaryError")
        ELSE IF ~PyInRange(b, cp) THEN Fail("IndexError")
        ELSE IF PyGet(b, cp) = ord_e THEN Deliver(stk, VDict(top.contents), cp)
        ELSE LET kr == decode_string(b, cp)
             IN  IF kr.err # "" THEN Fail(kr.err)
                 ELSE decode_dictionary_value(
                        [stk EXCEPT ![n] = [top EXCEPT !.key = kr.val,
                                                       !.current_pos = kr.end + 1]], b)

\* a leaf routine called directly: no frame outlives the call
Direct(r) == [stack |-> <<>>, result |-> r]

\* Decoder.decode(data, pos): dispatch on the byte at pos; when no branch
\* matches the function ends without a return statement and yields None
decode(b, p) ==
    IF ~PyInRange(b, p) THEN Fail("IndexError")
    ELSE IF PyGet(b, p) = ord_i THEN Direct(decode_integer(b, p))
    ELSE IF IsDigit(PyGet(b, p)) THEN Direct(decode_string(b, p))
    ELSE IF PyGet(b, p) = ord_l THEN decode_list(<<>>, b, p)
    ELSE IF PyGet(b, p) = ord_d THEN decode_dictionary(<<>>, b, p)
    ELSE Direct(Return1(VNone))

\* decode returns the value alone, the four routines return (value, end)
Returned(call, r) ==
    IF call = "decode" /\ r.err = "" THEN Return1(r.val) ELSE r

(***************************************************************************)
(* Encoder.  A routine returns bytes or raises; an exception leaves no     *)
(* output.                                                                 *)
(***************************************************************************)
EncOk(bs) == [err |-> "", bytes |-> bs]
EncRaise(e) == [err |-> e, bytes |-> <<>>]
NoOutput == [err |-> "pending", bytes |-> <<>>]

\* f'{data}' for an int or a bool
PyFormat(x) == IF x.k = "bool" THEN PyStrBool(x.n) ELSE PyStrInt(x.n)

\* Encoder.encode_integer(data)
encode_integer(x) ==
    IF ~IsInstanceInt(x) THEN EncRaise("EncodeIntegerError")
    ELSE EncOk(<<ord_i>> \o PyFormat(x) \o <<ord_e>>)

\* Encoder.encode_string(data)
encode_string(x) ==
    IF ~IsInstanceStr(x) THEN EncRaise("EncodeStringError")
    ELSE LET bs == IF x.k = "bytes" THEN x.s ELSE PyStrEncode(x.s)
         IN  EncOk(PyStrInt(Len(bs)) \o <<ord_colon>> \o bs)

RECURSIVE encode_list(_), encode_list_loop(_, _), encode_dictionary(_), encode_dictionary_loop(_, _)

\* Encoder.encode_list(data)
encode_list(x) ==
    IF ~IsInstanceList(x) THEN EncRaise("EncodeListError")
    ELSE encode_list_loop(x.c, <<ord_l>>)

\* the for loop of encode_list with a final branch that raises, as the
\* loop of encode_dictionary has
encode_list_loop_raising(items, res) ==
    IF items = <<>> THEN EncOk(res \o <<ord_e>>)
    ELSE LET item == items[1]
             r == IF IsInstanceInt(item) THEN encode_integer(item)
                  ELSE IF IsInstanceStr(item) THEN encode_string(item)
                  ELSE IF IsInstanceList(item) THEN encode_list(item)
                  ELSE IF IsInstanceDict(item) THEN encode_dictionary(item)
                  ELSE EncRaise("EncodeListError")
         IN  IF r.err # "" THEN r ELSE encode_list_loop(Tail(items), res \o r.bytes)

\* the for loop of encode_list over the remaining items
encode_list_loop(items, res) ==
    IF items = <<>> THEN EncOk(res \o <<ord_e>>)
    ELSE LET item == items[1]
             r == IF IsInstanceInt(item) THEN encode_integer(item)
                  ELSE IF IsInstanceStr(item) THEN encode_string(item)
                  ELSE IF IsInstanceList(item) THEN encode_list(item)
                  ELSE IF IsInstanceDict(item) THEN encode_dictionary(item)
                  ELSE EncOk(<<>>)
         IN  IF r.err # "" THEN r ELSE encode_list_loop(Tail(items), res \o r.bytes)

\* Encoder.encode_dictionary(data)
encode_dictionary(x) ==
    IF ~IsInstanceDict(x) THEN EncRaise("EncodeListError")
    ELSE encode_dictionary_loop(x.c, <<ord_d>>)

\* the for loop of encode_dictionary over the remaining items()
encode_dictionary_loop(pairs, res) ==
    IF pairs = <<>> THEN EncOk(res \o <<ord_e>>)
    ELSE LET key == pairs[1].c[1]
             val == pairs[1].c[2]
         IN  IF ~IsInstanceStr(key) THEN EncRaise("EncodeDictionaryError")
             ELSE LET kr == encode_string(key)
                      vr == IF IsInstanceStr(val) THEN encode_string(val)
                            ELSE IF IsInstanceInt(val) THEN encode_integer(val)
                            ELSE IF IsInstanceList(val) THEN encode_list(val)
                            ELSE IF IsInstanceDict(val) THEN encode_dictionary(val)
                            ELSE EncRaise("EncodeDictionaryError")
                  IN  IF vr.err # "" THEN vr
                      ELSE encode_dictionary_loop(Tail(pairs), res \o kr.bytes \o vr.bytes)

\* Encoder.encode(data)
encode(x) ==
    IF IsInstanceStr(x) THEN encode_string(x)
    ELSE IF IsInstanceInt(x) THEN encode_integer(x)
    ELSE IF IsInstanceList(x) THEN encode_list(x)
    ELSE IF IsInstanceDict(x) THEN encode_dictionary(x)
    ELSE EncRaise("EncodeError")

(***************************************************************************)
(* Inputs.                                                                 *)
(***************************************************************************)
\* the bytes of raw buffers: i l d e : - 0 1 4
Alphabet == {ord_i, ord_l, ord_d, ord_e, ord_colon, ord_minus, ord_0, ord_0 + 1, ord_0 + 4}

Buffers == UNION {[1..n -> Alphabet] : n \in 0..MaxLen}

\* values without children: 0, -12, True, b'', b'a', 'é', None
Leaves ==
    {VInt(0), VInt(0 - 12), VBool(1), VBytes(<<>>), VBytes(<<97>>), VStr(<<233>>), VNone}

\* keys of dicts: b'a', 'a' and the int 0
Keys == {VBytes(<<97>>), VStr(<<97>>), VInt(0)}

RECURSIVE ValuesOfSize(_), ItemsOfSize(_), PairsOfSize(_, _)

\* the sequences of values with n nodes in total
ItemsOfSize(n) ==
    IF n = 0 THEN {<<>>}
    ELSE UNION {LET heads == ValuesOfSize(m)
                    tails == ItemsOfSize(n - m)
                IN  {<<x>> \o rest : x \in heads, rest \in tails} : m \in 1..n}

\* the sequences of dict items over the keys ks (each key once) whose
\* values have n nodes in total
PairsOfSize(n, ks) ==
    IF n = 0 THEN {<<>>}
    ELSE UNION {LET heads == ValuesOfSize(m)
                IN  UNION {LET tails == PairsOfSize(n - m, ks \ {key})
                           IN  {<<VPair(key, x)>> \o rest : x \in heads, rest \in tails} :
                           key \in ks} : m \in 1..n}

\* the values with exactly n nodes (a key is not counted)
ValuesOfSize(n) ==
    IF n = 1 THEN Leaves \cup {VList(<<>>), VDict(<<>>)}
    ELSE {VList(c) : c \in ItemsOfSize(n - 1)} \cup {VDict(c) : c \in PairsOfSize(n - 1, Keys)}

Values == UNION {ValuesOfSize(n) : n \in 1..MaxNodes}

(***************************************************************************)
(* State machine.                                                          *)
(*   data, pos      the buffer and the offset handed to the decoder        *)
(*   value          the value handed to the encoder                        *)
(*   decoder_call   the Decoder method the caller invoked                  *)
(*   encoder_call   the Encoder method the caller invoked                  *)
(*   stack          the active decode_list / decode_dictionary calls       *)
(*   result         what the decoder call returned or raised               *)
(*   out            what the encoder call returned or raised               *)
(*   out2           the re-encoding of a decoded value                     *)
(***************************************************************************)
Idle ==
    /\ pc = "ready"
    /\ decoder_call = "none"
    /\ encoder_call = "none"
    /\ pos = 0
    /\ stack = <<>>
    /\ result = NoResult
    /\ out = NoOutput
    /\ out2 = NoOutput

\* the caller holds a raw buffer
InitDecoder == data \in Buffers /\ value = VNone /\ Idle

\* the caller holds a value
InitEncoder == data = <<>> /\ value \in Values /\ Idle

Init == InitDecoder \/ InitEncoder

\* offsets a caller passes: every index of the buffer, 0 for the empty one
Positions(b) == IF b = <<>> THEN {0} ELSE 0..(Len(b) - 1)

\* the decoder starts in state m for the call `call` at offset p
Started(call, p, m) ==
    /\ decoder_call' = call
    /\ pos' = p
    /\ stack' = m.stack
    /\ result' = Returned(call, m.result)
    /\ pc' = IF m.result.err = "pending" THEN "decoding" ELSE "done"

CallDecodeInteger ==
    /\ pc = "ready" /\ value = VNone
    /\ \E p \in Positions(data) : Started("decode_integer", p, Direct(decode_integer(data, p)))
    /\ UNCHANGED <<data, value, encoder_call, out, out2>>

CallDecodeString ==
    /\ pc = "ready" /\ value = VNone
    /\ \E p \in Positions(data) : Started("decode_string", p, Direct(decode_string(data, p)))
    /\ UNCHANGED <<data, value, encoder_call, out, out2>>

CallDecodeList ==
    /\ pc = "ready" /\ value = VNone
    /\ \E p \in Positions(data) : Started("decode_list", p, decode_list(<<>>, data, p))
    /\ UNCHANGED <<data, value, encoder_call, out, out2>>

CallDecodeDictionary ==
    /\ pc = "ready" /\ value = VNone
    /\ \E p \in Positions(data) : Started("decode_dictionary", p, decode_dictionary(<<>>, data, p))
    /\ UNCHANGED <<data, value, encoder_call, out, out2>>

CallDecode ==
    /\ pc = "ready" /\ value = VNone
    /\ \E p \in Positions(data) : Started("decode", p, decode(data, p))
    /\ UNCHANGED <<data, value, encoder_call, out, out2>>

\* the decoder moves to state m
Stepped(m) ==
    /\ stack' = m.stack
    /\ result' = Returned(decoder_call, m.result)
    /\ pc' = IF m.result.err = "pending" THEN "decoding" ELSE "done"
    /\ UNCHANGED <<data, value, decoder_call, encoder_call, pos, out, out2>>

ListStep ==
    /\ pc = "decoding"
    /\ stack[Len(stack)].fn = "list"
    /\ Stepped(decode_list_step(stack, data))

DictionaryStep ==
    /\ pc = "decoding"
    /\ stack[Len(stack)].fn = "dict"
    /\ Stepped(decode_dictionary_step(stack, data))

\* the encoder call `call` finished with r
Encoded(call, r) ==
    /\ pc = "ready" /\ data = <<>>
    /\ encoder_call' = call
    /\ out' = r
    /\ pc' = "encoded"
    /\ UNCHANGED <<data, value, decoder_call, pos, stack, result, out2>>

CallEncodeInteger == Encoded("encode_integer", encode_integer(value))

CallEncodeString == Encoded("encode_string", encode_string(value))

CallEncodeList == Encoded("encode_list", encode_list(value))

CallEncodeDictionary == Encoded("encode_dictionary", encode_dictionary(value))

CallEncode == Encoded("encode", encode(value))

\* decode(encode(v)): the caller hands the encoder's output to decode
DecodeEncoded ==
    /\ pc = "encoded" /\ encoder_call = "encode" /\ out.err = ""
    /\ data' = out.bytes
    /\ Started("decode", 0, decode(out.bytes, 0))
    /\ UNCHANGED <<value, encoder_call, out, out2>>

\* encode(decode(b)): the caller hands the decoded value back to encode
ReEncode ==
    /\ pc = "done" /\ encoder_call = "encode" /\ result.err = ""
    /\ out2' = encode(result.val)
    /\ pc' = "reencoded"
    /\ UNCHANGED <<data, value, decoder_call, encoder_call, pos, stack, result, out>>

Next ==
    \/ CallDecodeInteger
    \/ CallDecodeString
    \/ CallDecodeList
    \/ CallDecodeDictionary
    \/ CallDecode
    \/ ListStep
    \/ DictionaryStep
    \/ CallEncodeInteger
    \/ CallEncodeString
    \/ CallEncodeList
    \/ CallEncodeDictionary
    \/ CallEncode
    \/ DecodeEncoded
    \/ ReEncode

Spec == Init /\ [][Next]_vars

(***************************************************************************)
(* The wire grammar of Bencode, used to state the properties:              *)
(*   integer  i -? digit+ e     no leading zero but the literal 0, no -0   *)
(*   string   digit+ : byte{length}                                        *)
(*   list     l value* e                                                   *)
(*   dict     d (string value)* e                                          *)
(***************************************************************************)
AllDigits(t) == t # <<>> /\ \A j \in 1..Len(t) : IsDigit(t[j])

NoLeadingZero(t) == AllDigits(t) /\ (Len(t) > 1 => t[1] # ord_0)

GrammarInteger(t) ==
    \/ NoLeadingZero(t)
    \/ t # <<>> /\ t[1] = ord_minus /\ NoLeadingZero(Tail(t)) /\ Tail(t) # <<ord_0>>

\* t reads as a base-10 number: digits, possibly after a minus sign
NumberText(t) ==
    AllDigits(t) \/ (t # <<>> /\ t[1] = ord_minus /\ AllDigits(Tail(t)))

NumberValue(t) ==
    IF t[1] = ord_minus THEN 0 - PyDigitsValue(Tail(t), 0) ELSE PyDigitsValue(t, 0)

\* t reads as a number that is not negative
NonNegativeNumber(t) == NumberText(t) /\ NumberValue(t) >= 0

RECURSIVE ElementEnd(_, _), ElementsEnd(_, _), PairsEnd(_, _)

\* the 0-based index just past the well-formed element that starts at
\* index i of b, or -1 when none starts there
ElementEnd(b, i) ==
    IF i < 0 \/ i >= Len(b) THEN -1
    ELSE IF b[i + 1] = ord_i THEN
        LET e == PyFind(b, ord_e, i)
        IN  IF e # -1 /\ GrammarInteger(SubSeq(b, i + 2, e)) THEN e + 1 ELSE -1
    ELSE IF IsDigit(b[i + 1]) THEN
        LET c == PyFind(b, ord_colon, i)
        IN  IF c # -1 /\ NoLeadingZero(SubSeq(b, i + 1, c))
               /\ c + 1 + PyDigitsValue(SubSeq(b, i + 1, c), 0) <= Len(b)
            THEN c + 1 + PyDigitsValue(SubSeq(b, i + 1, c), 0) ELSE -1
    ELSE IF b[i + 1] = ord_l THEN
        LET j == ElementsEnd(b, i + 1)
        IN  IF j < Len(b) /\ b[j + 1] = ord_e THEN j + 1 ELSE -1
    ELSE IF b[i + 1] = ord_d THEN
        LET j == PairsEnd(b, i + 1)
        IN  IF j < Len(b) /\ b[j + 1] = ord_e THEN j + 1 ELSE -1
    ELSE -1

\* the index just past the longest run of well-formed elements from i
ElementsEnd(b, i) ==
    LET n == ElementEnd(b, i)
    IN  IF n = -1 THEN i ELSE ElementsEnd(b, n)

\* the index just past the longest run of well-formed key/value pairs from i
PairsEnd(b, i) ==
    IF i < Len(b) /\ IsDigit(b[i + 1]) /\ ElementEnd(b, i) # -1
       /\ ElementEnd(b, ElementEnd(b, i)) # -1
    THEN PairsEnd(b, ElementEnd(b, ElementEnd(b, i)))
    ELSE i

\* b is exactly one well-formed value
WellFormed(b) == b # <<>> /\ ElementEnd(b, 0) = Len(b)

\* l, complete elements, end of buffer
UnterminatedList(b) == b # <<>> /\ b[1] = ord_l /\ ElementsEnd(b, 1) = Len(b)

\* d, complete pairs, possibly one more complete key, end of buffer
UnterminatedDictionary(b) ==
    /\ b # <<>>
    /\ b[1] = ord_d
    /\ LET j == PairsEnd(b, 1)
       IN  j = Len(b) \/ (j < Len(b) /\ IsDigit(b[j + 1]) /\ ElementEnd(b, j) = Len(b))

RECURSIVE IsBencodeValue(_)
\* v is built from the four kinds: integer, byte string, list of values,
\* dictionary from byte-string keys to values
IsBencodeValue(v) ==
    \/ v.k \in {"int", "bytes"}
    \/ v.k = "list" /\ \A j \in 1..Len(v.c) : IsBencodeValue(v.c[j])
    \/ v.k = "dict" /\ \A j \in 1..Len(v.c) : v.c[j].c[1].k = "bytes" /\ IsBencodeValue(v.c[j].c[2])

\* the kinds the encoder dispatches on
Supported(x) == IsInstanceInt(x) \/ IsInstanceStr(x) \/ IsInstanceList(x) \/ IsInstanceDict(x)

RECURSIVE Encodings(_)
\* the concatenated encodings of a sequence of values
Encodings(items) ==
    IF items = <<>> THEN <<>> ELSE encode(items[1]).bytes \o Encodings(Tail(items))

DecodeErrors ==
    {"DecodeIntegerError", "DecodeStringError", "DecodeListError", "DecodeDictionaryError"}

\* the caller called the decoder on a raw buffer and the call is over
DecoderDone(call) == pc = "done" /\ encoder_call = "none" /\ decoder_call = call

\* the caller called the encoder and the call is over
EncoderDone(call) == pc = "encoded" /\ encoder_call = call

CanonicalReEncode ==
    (encoder_call = "encode" /\ out.err = "") =>
        /\ (pc = "done" => result.err = "")
        /\ (pc = "reencoded" => out2 = out)

(***************************************************************************)
(* C3.  decode(buffer, pos) fails with a decode error whenever the byte    *)
(* at pos is none of i, a digit, l, d; it never returns nothing.           *)
(***************************************************************************)
DecodeRejectsUnknownTag ==
    (/\ DecoderDone("decode")
     /\ PyInRange(data, pos)
     /\ PyGet(data, pos) \notin {ord_i, ord_l, ord_d}
     /\ ~IsDigit(PyGet(data, pos))) =>
        result.err \in DecodeErrors

(***************************************************************************)
(* C4.  Unterminated containers: on an opener followed by complete         *)
(* elements and the end of the buffer, decode_list fails with              *)
(* DecodeListError and decode_dictionary with DecodeDictionaryError, also  *)
(* when the buffer ends right after a complete key.                        *)
(***************************************************************************)
UnterminatedContainers ==
    /\ ((DecoderDone("decode_list") \/ DecoderDone("decode")) /\ pos = 0
          /\ UnterminatedList(data) => result.err = "DecodeListError")
    /\ ((DecoderDone("decode_dictionary") \/ DecoderDone("decode")) /\ pos = 0
          /\ UnterminatedDictionary(data) => result.err = "DecodeDictionaryError")

(***************************************************************************)
(* C5.  decode_integer accepts exactly i -? digit+ e without leading       *)
(* zeros and without -0: when the text between i and the first e is not    *)
(* such a literal (empty, 04, -0), decode_integer and decode fail with     *)
(* DecodeIntegerError.                                                     *)
(***************************************************************************)
DecodeIntegerStrict ==
    (/\ DecoderDone("decode_integer") \/ DecoderDone("decode")
     /\ PyInRange(data, pos)
     /\ PyGet(data, pos) = ord_i
     /\ PyFind(data, ord_e, pos) # -1
     /\ ~GrammarInteger(PySlice(data, pos + 1, PyFind(data, ord_e, pos)))) =>
        result.err = "DecodeIntegerError"

(***************************************************************************)
(* C6.  decode_string succeeds only with a non-negative declared length:   *)
(* when the text between pos and the first : is not a non-negative         *)
(* base-10 number it fails with DecodeStringError, and when it succeeds    *)
(* the payload has exactly the declared number of bytes.                   *)
(***************************************************************************)
DecodeStringNonNegativeLength ==
    DecoderDone("decode_string") =>
        LET colon == PyFind(data, ord_colon, pos)
            txt == PySlice(data, pos, colon)
        IN  /\ (colon # -1 /\ ~NonNegativeNumber(txt) => result.err = "DecodeStringError")
            /\ (result.err = "" =>
                  NonNegativeNumber(txt) /\ Len(result.val.s) = NumberValue(txt))

(***************************************************************************)
(* C7.  Each routine reports a wrong leading byte or a wrong input kind    *)
(* with the error kind of its own category and direction.                  *)
(***************************************************************************)
ErrorKindOfOwnCategory ==
    /\ (DecoderDone("decode_integer") /\ PyInRange(data, pos) /\ PyGet(data, pos) # ord_i
          => result.err = "DecodeIntegerError")
    /\ (DecoderDone("decode_list") /\ PyInRange(data, pos) /\ PyGet(data, pos) # ord_l
          => result.err = "DecodeListError")
    /\ (DecoderDone("decode_dictionary") /\ PyInRange(data, pos) /\ PyGet(data, pos) # ord_d
          => result.err = "DecodeDictionaryError")
    /\ (EncoderDone("encode_integer") /\ ~IsInstanceInt(value)
          => out.err = "EncodeIntegerError")
    /\ (EncoderDone("encode_string") /\ ~IsInstanceStr(value)
          => out.err = "EncodeStringError")
    /\ (EncoderDone("encode_list") /\ ~IsInstanceList(value)
          => out.err = "EncodeListError")
    /\ (EncoderDone("encode_dictionary") /\ ~IsInstanceDict(value)
          => out.err = "EncodeDictionaryError")

(***************************************************************************)
(* C8.  Inclusive end offset: when one of the four routines returns        *)
(* (value, end), pos <= end < len(buffer); end is the index of the         *)
(* terminating e of an integer, list or dictionary, and of the last        *)
(* payload byte of a string (of : when the length is 0); on a buffer       *)
(* produced by encode, buffer[pos..end] is the encoding of the value.      *)
(***************************************************************************)
InclusiveEndOffset ==
    (/\ pc = "done"
     /\ encoder_call = "none"
     /\ decoder_call \in {"decode_integer", "decode_string", "decode_list", "decode_dictionary"}
     /\ result.err = "") =>
        /\ pos <= result.end
        /\ result.end < Len(data)
        /\ (decoder_call # "decode_string" => PyGet(data, result.end) = ord_e)
        /\ (decoder_call = "decode_string" =>
              result.end = PyFind(data, ord_colon, pos) + Len(result.val.s))
        /\ (WellFormed(data) =>
              PySlice(data, pos, result.end + 1) = encode(result.val).bytes)

(***************************************************************************)
(* C9.  Decoding is single-pass and terminates: the cursor of every        *)
(* active decode_list / decode_dictionary call only moves forward, past    *)
(* the opener of the call, and the recursion depth never exceeds the       *)
(* nesting depth of the input (at most its number of l and d bytes).       *)
(***************************************************************************)
SinglePassDecoding ==
    /\ Len(stack) <= Cardinality({j \in 1..Len(data) : data[j] \in {ord_l, ord_d}})
    /\ \A j \in 1..Len(stack) : stack[j].current_pos > stack[j].pos
    /\ result.err # "RecursionError"

(***************************************************************************)
(* C10.  The encoder treats unsupported kinds asymmetrically: encode_list  *)
(* drops the elements whose kind is none of the four and returns l, the    *)
(* encodings of the supported elements in order, e (it fails only when     *)
(* the encoding of a supported element fails); encode_dictionary fails     *)
(* with EncodeDictionaryError, without output, when a key is not a         *)
(* str/bytes or a value is of none of the four kinds.                      *)
(***************************************************************************)
EncoderAsymmetry ==
    /\ (EncoderDone("encode_list") /\ IsInstanceList(value) =>
          LET kept == SelectSeq(value.c, Supported)
          IN  IF \A j \in 1..Len(kept) : encode(kept[j]).err = ""
              THEN out = EncOk(<<ord_l>> \o Encodings(kept) \o <<ord_e>>)
              ELSE \E j \in 1..Len(kept) : encode(kept[j]).err # "" /\ out = encode(kept[j]))
    /\ (/\ EncoderDone("encode_dictionary")
        /\ IsInstanceDict(value)
        /\ \E j \in 1..Len(value.c) :
              ~IsInstanceStr(value.c[j].c[1]) \/ ~Supported(value.c[j].c[2])) =>
          out = EncRaise("EncodeDictionaryError")

\* encode_list returned the encoding of a list that holds both an element
\* of an unsupported kind and a supported one
EncoderAsymmetryWitness ==
    /\ EncoderDone("encode_list")
    /\ IsInstanceList(value)
    /\ \E j \in 1..Len(value.c) : ~Supported(value.c[j])
    /\ \E j \in 1..Len(value.c) : Supported(value.c[j])
    /\ out.err = ""
    /\ Len(out.bytes) > 2

====
